---- MODULE Spec2Model ----
(***************************************************************************)
(* Grading engine of auto-quiz-genie.                                      *)
(*                                                                         *)
(* The repository holds two versions of the `grade` edge function:         *)
(*   "submissions"  supabase/functions/grade/index.ts: one row per         *)
(*                  submission, answers and grading kept as JSON arrays;   *)
(*   "responses"    unnamed/part_004 (lines 1-318): one question_responses *)
(*                  row per answer, graded and written one at a time by    *)
(*                  gradeShortAnswer and the serve handler.                *)
(* One of them is deployed (variable deployed).  An invocation walks the   *)
(* handler one await at a time.                                            *)
(*                                                                         *)
(* Numbers: points and scores are counted in tenths of a point (weight 2   *)
(* is 20, score 1.5 is 15), so that the fractions the code computes stay   *)
(* integers.  A JavaScript value that is not a number (undefined, NaN, a   *)
(* string) is carried by the flag scoreIsNum = FALSE beside the number.    *)
(* Strings the code parses are sequences of one-character strings.         *)
(***************************************************************************)
EXTENDS Integers, Sequences, FiniteSets, TLC

\* Longest quiz the model grades.
MaxQuestions == 2

----------------------------------------------------------------------------
(* Helpers *)

Range(s) == {s[n] : n \in 1..Len(s)}

RECURSIVE Sum(_)
Sum(s) == IF s = <<>> THEN 0 ELSE Head(s) + Sum(Tail(s))

\* All sequences over S without repetition, of length 0..n.
RECURSIVE InjSeqs(_, _)
InjSeqs(S, n) ==
  IF n = 0 THEN {<<>>}
  ELSE LET shorter == InjSeqs(S, n - 1)
       IN  shorter \cup {Append(p[1], p[2]) :
                           p \in {q \in shorter \X S : q[2] \notin Range(q[1])}}

\* The orders in which a SELECT without ORDER BY can return the rows.
Orders(rows) ==
  {[n \in 1..Len(rows) |-> rows[p[n]]] :
     p \in {q \in InjSeqs(1..Len(rows), Len(rows)) : Len(q) = Len(rows)}}

\* Math.floor(weight * 0.5) and Math.floor(weight * 0.7), weight in tenths.
FloorHalf(w) == ((w * 5) \div 100) * 10
FloorSeventy(w) == ((w * 7) \div 100) * 10

ConfidenceLabels == {"high", "medium", "low"}

----------------------------------------------------------------------------
(* The grading oracle (the chat-completions call).  A reply is what one    *)
(* fetch produces: kind says how far the exchange got, the other fields    *)
(* are the parsed JSON object when kind = "object".  "undefined" stands    *)
(* for a field the object does not have; scoreIsNum = FALSE is an object   *)
(* whose score is undefined.  text is the field the deployed version       *)
(* reads: explanation in grade/index.ts, feedback in part_004.             *)

Reply(kind, isNum, score, conf, text, rr) ==
  [kind |-> kind, scoreIsNum |-> isNum, score |-> score, confidence |-> conf,
   text |-> text, requiresReview |-> rr]

\* fetch rejects (network error, timeout); status outside 2xx; body is not
\* JSON; content is not JSON (or choices[0].message.content is missing, which
\* the code treats alike); content is the JSON value null.
FailureKinds == {"throws", "status", "unreadable", "notjson", "null"}

FailedReplies ==
  {Reply(kind, FALSE, 0, "undefined", "undefined", "undefined") : kind \in FailureKinds}

ObjectReplies ==
     {Reply("object", TRUE, sc, "medium", "oracle text", "undefined") :
        sc \in {-10, 0, 10, 15, 50}}
  \cup {Reply("object", TRUE, 15, conf, "oracle text", "undefined") :
        conf \in {"high", "low", "HIGH", "undefined"}}
  \cup {Reply("object", TRUE, 15, "high", "oracle text", rr) : rr \in {"true", "false"}}
  \cup {Reply("object", TRUE, 15, "high", "undefined", "undefined"),
        Reply("object", TRUE, 15, "medium", "undefined", "undefined"),
        Reply("object", TRUE, 50, "high", "oracle text", "undefined"),
        Reply("object", FALSE, 0, "medium", "oracle text", "undefined")}

OracleReplies == FailedReplies \cup ObjectReplies

----------------------------------------------------------------------------
(* Stored data of the "submissions" version                                *)
(* (migration 20250830202447: quizzes, questions.q, submissions).          *)

Choice(label, correct) == [label |-> label, is_correct |-> correct]

\* questions.q; weight 0 is a q without a weight field.  q1 and q2 are the
\* two questions the migration seeds.
QuestionsQ ==
  { [id |-> "q1", type |-> "mcq", weight |-> 10,
     choices |-> <<Choice("A", FALSE), Choice("B", TRUE), Choice("C", FALSE)>>],
    [id |-> "q2", type |-> "short", weight |-> 20, choices |-> <<>>],
    [id |-> "q3", type |-> "short", weight |-> 30, choices |-> <<>>],
    [id |-> "q4", type |-> "mcq", weight |-> 0,
     choices |-> <<Choice("A", TRUE), Choice("B", FALSE)>>],
    [id |-> "q5", type |-> "mcq", weight |-> 20,
     choices |-> <<Choice("A", FALSE), Choice("B", FALSE)>>] }

\* One element of submissions.answers, as SimpleTakeQuiz.handleAnswerChange
\* builds it: {questionId, answerText, choiceLabel}.
Answer(qid, text, label) == [questionId |-> qid, answerText |-> text, choiceLabel |-> label]

NoAnswer == Answer("none", "undefined", "undefined")

AnswerOptions(q) ==
  IF q.type = "mcq"
  THEN {NoAnswer} \cup {Answer(q.id, "undefined", l) : l \in {"A", "B", "b"}}
                  \cup {Answer(q.id, "some text", "undefined")}
  ELSE {NoAnswer, Answer(q.id, "", "undefined"), Answer(q.id, "some text", "undefined")}

AllAnswerOptions == UNION {AnswerOptions(q) : q \in QuestionsQ}

\* The answers array for a quiz: the chosen answers, unanswered ones left out.
AnswerArrays(quiz) ==
  {SelectSeq(f, LAMBDA a : a # NoAnswer) :
     f \in {g \in [1..Len(quiz) -> AllAnswerOptions] :
              \A n \in 1..Len(quiz) : g[n] \in AnswerOptions(quiz[n])}}

NoScore == [score |-> 0, scoreIsNum |-> FALSE]

SubmissionRow(answers) ==
  [quiz_id |-> "quiz1", user_id |-> "student", answers |-> answers,
   score |-> NoScore, graded |-> <<>>, updates |-> 0]

----------------------------------------------------------------------------
(* Stored data of the "responses" version                                  *)
(* (migration 20250828110445: questions, quiz_submissions,                 *)
(* question_responses).                                                    *)

\* points is DECIMAL(5,2) NOT NULL with no lower bound: q3 is worth nothing.
QuestionRows ==
  { [id |-> "q1", question_type |-> "multiple_choice", points |-> 10,
     correct_answer_index |-> 1],
    [id |-> "q2", question_type |-> "short_answer", points |-> 20,
     correct_answer_index |-> -1],
    [id |-> "q3", question_type |-> "short_answer", points |-> 0,
     correct_answer_index |-> -1],
    [id |-> "q4", question_type |-> "multiple_choice", points |-> 20,
     correct_answer_index |-> 0] }

\* student_answer texts: '' (TakeQuiz.handleSubmit for an unanswered
\* question), an option index as TakeQuiz writes it, and texts a client
\* writing the row directly can store.
StudentAnswers(q) ==
  IF q.question_type = "multiple_choice"
  THEN {<<>>, <<"0">>, <<"1">>, <<"1", "a">>, <<" ", "1">>, <<"a">>}
  ELSE {<<>>, <<"t", "e", "x", "t">>}

AllStudentAnswers == UNION {StudentAnswers(q) : q \in QuestionRows}

ResponseRow(q, text) ==
  [id |-> <<"s1", q.id>>, submission_id |-> "s1", questions |-> q, student_answer |-> text,
   graded |-> FALSE, is_correct |-> FALSE, points_earned |-> 0,
   ai_feedback |-> "null", confidence |-> "null", requires_manual_review |-> FALSE]

\* The question_responses rows of a submission: one per question of the
\* quiz (TakeQuiz.handleSubmit upserts them all at once), or none yet.
ResponseTables(quiz) ==
  {<<>>} \cup
  {[n \in 1..Len(quiz) |-> ResponseRow(quiz[n], f[n])] :
     f \in {g \in [1..Len(quiz) -> AllStudentAnswers] :
              \A n \in 1..Len(quiz) : g[n] \in StudentAnswers(quiz[n])}}

QuizSubmissionRow ==
  [quiz_id |-> "quiz1", student_id |-> "student", created_by |-> "teacher",
   total_score |-> NoScore, max_possible_score |-> 0, is_completed |-> FALSE,
   needs_review |-> FALSE, updates |-> 0]

----------------------------------------------------------------------------
(* The quiz's own order of its questions: created_at in the "submissions"  *)
(* schema (SimpleTakeQuiz reads them .order('created_at')), order_number   *)
(* in the "responses" schema.  Questions are numbered as they were made.   *)

Ordinal(id) ==
  CASE id = "q1" -> 1 [] id = "q2" -> 2 [] id = "q3" -> 3 [] id = "q4" -> 4
    [] id = "q5" -> 5

\* The quizzes over a bank of questions, up to n questions long, each in
\* its own order (the tables hold the rows in that order).
Quizzes(bank, n) ==
  {quiz \in InjSeqs(bank, n) :
     \A a, b \in 1..Len(quiz) : a < b => Ordinal(quiz[a].id) < Ordinal(quiz[b].id)}

----------------------------------------------------------------------------
(* parseInt, on a string given as a sequence of characters: leading blanks *)
(* are skipped, one sign is read, then the longest run of decimal digits;  *)
(* what follows the digits is ignored; no digit gives NaN (isNum FALSE).   *)
(* The strings of the model hold no "x", so the 0x prefix never applies.   *)

Digits == {"0", "1", "2", "3", "4", "5", "6", "7", "8", "9"}

DigitValue(c) ==
  CASE c = "0" -> 0 [] c = "1" -> 1 [] c = "2" -> 2 [] c = "3" -> 3 [] c = "4" -> 4
    [] c = "5" -> 5 [] c = "6" -> 6 [] c = "7" -> 7 [] c = "8" -> 8 [] c = "9" -> 9

RECURSIVE SkipBlanks(_)
SkipBlanks(s) == IF s # <<>> /\ Head(s) = " " THEN SkipBlanks(Tail(s)) ELSE s

RECURSIVE ReadDigits(_, _, _)
ReadDigits(s, acc, seen) ==
  IF s # <<>> /\ Head(s) \in Digits
  THEN ReadDigits(Tail(s), acc * 10 + DigitValue(Head(s)), TRUE)
  ELSE [isNum |-> seen, value |-> acc]

parseInt(s) ==
  LET t == SkipBlanks(s)
      signed == t # <<>> /\ Head(t) \in {"-", "+"}
      r == ReadDigits(IF signed THEN Tail(t) ELSE t, 0, FALSE)
  IN  [isNum |-> r.isNum,
       value |-> IF signed /\ Head(t) = "-" THEN 0 - r.value ELSE r.value]

----------------------------------------------------------------------------
(* State *)

VARIABLES
  deployed,           \* which version of the grade function serves requests
  rowSecurity,        \* whether the submissions policy (auth.uid() = user_id)
                      \* is in force for the function's database client.  The
                      \* client of grade/index.ts carries the anon key and no
                      \* user token, so under the policy it sees no row; the
                      \* client of part_004 carries the service role key,
                      \* which no policy binds.
  questions,          \* the questions of the quiz, in the quiz's order
  submissions,        \* "submissions" version: submission id -> row
  quiz_submissions,   \* "responses" version: submission id -> row
  question_responses, \* "responses" version: the rows of all submissions
  oracle,             \* the replies the grading oracle can give
  client,             \* the quiz-taking component in the student's browser
  gen,                \* the generate-quiz function: its tables and its runs
  inv                 \* invocation -> the handler's locals and position

vars == <<deployed, rowSecurity, questions, submissions, quiz_submissions,
          question_responses, oracle, client, gen, inv>>

\* The requests the function serves, one handler run each.
Invocations == DOMAIN inv

tables == <<questions, submissions, quiz_submissions, question_responses>>

EmptyTable == [s \in {} |-> 0]

SubmissionIds == {"s1"}

\* Bodies a request can carry: the stored submission, an unknown id, no id.
RequestIds == {"s1", "s0", ""}

\* The submission's owner, the quiz's author, another signed-in user, a
\* request without Authorization header, a request with an invalid token.
\* The "submissions" version never reads the request's headers: there the
\* owner and a caller without header stand for all.
Callers ==
  IF deployed = "submissions" THEN {"student", "no header"}
  ELSE {"student", "teacher", "other", "no header", "bad token"}

NoResponse == [status |-> 0]

IdleInvocation ==
  [pc |-> "idle", caller |-> "none", submissionId |-> "none",
   answers |-> <<>>, questions |-> <<>>, responses |-> <<>>, k |-> 0,
   totalScore |-> 0, totalIsNum |-> TRUE, maxPossibleScore |-> 0,
   needsReview |-> FALSE, gradedResults |-> <<>>, oracleLog |-> <<>>,
   response |-> NoResponse]

\* No quiz is being taken, no quiz is being generated.
NoClient == [component |-> "none"]
NoGenerator == [variant |-> "none"]

InitSubmissions ==
  /\ deployed = "submissions"
  /\ rowSecurity \in BOOLEAN
  /\ questions \in Quizzes(QuestionsQ, MaxQuestions)
  /\ \E answers \in AnswerArrays(questions) :
       submissions = [s \in SubmissionIds |-> SubmissionRow(answers)]
  /\ quiz_submissions = EmptyTable
  /\ question_responses = <<>>

InitResponses ==
  /\ deployed = "responses"
  /\ rowSecurity = TRUE
  /\ questions \in Quizzes(QuestionRows, MaxQuestions)
  /\ submissions = EmptyTable
  /\ quiz_submissions = [s \in SubmissionIds |-> QuizSubmissionRow]
  /\ question_responses \in ResponseTables(questions)

Init ==
  /\ InitSubmissions \/ InitResponses
  /\ oracle = OracleReplies
  /\ client = NoClient
  /\ gen = NoGenerator
  /\ inv = [i \in {"g1"} |-> IdleInvocation]

----------------------------------------------------------------------------
(* Steps common to both versions *)

Respond(l, status, body) ==
  [l EXCEPT !.pc = "done", !.response = [status |-> status, body |-> body]]

ErrorBody(msg) == [error |-> msg]

\* A request arrives: its caller and its JSON body.
Receive(i) ==
  /\ inv[i].pc = "idle"
  /\ \E caller \in Callers,
        id \in RequestIds \cup DOMAIN submissions \cup DOMAIN quiz_submissions :
       inv' = [inv EXCEPT ![i] =
                 [@ EXCEPT !.caller = caller, !.submissionId = id,
                           !.pc = IF deployed = "responses" THEN "authenticate"
                                  ELSE "fetchSubmission"]]
  /\ UNCHANGED <<client, gen, deployed, rowSecurity, oracle, tables>>

----------------------------------------------------------------------------
(* The "submissions" version: supabase/functions/grade/index.ts            *)

\* submission.answers?.find(a => a.questionId === id): the first match.
RECURSIVE Find(_, _)
Find(answers, qid) ==
  IF answers = <<>> THEN NoAnswer
  ELSE IF Head(answers).questionId = qid THEN Head(answers)
  ELSE Find(Tail(answers), qid)

\* questionData.weight || 1
Weight(q) == IF q.weight = 0 THEN 10 ELSE q.weight

\* questionData.choices?.find(c => c.is_correct)
RECURSIVE CorrectChoice(_)
CorrectChoice(choices) ==
  IF choices = <<>> THEN Choice("undefined", FALSE)
  ELSE IF Head(choices).is_correct THEN Head(choices)
  ELSE CorrectChoice(Tail(choices))

GradedEntry(id, score, isNum, max, confidence, explanation) ==
  [id |-> id, score |-> score, scoreIsNum |-> isNum, max |-> max,
   confidence |-> confidence, explanation |-> explanation]

\* The total kept in whole points: the score's fraction is dropped.
AddScoreWhole(l, score, isNum) ==
  [l EXCEPT !.totalScore = IF l.totalIsNum /\ isNum
                           THEN l.totalScore + (score \div 10) * 10 ELSE 0,
            !.totalIsNum = l.totalIsNum /\ isNum]

\* totalScore += score
AddScore(l, score, isNum) ==
  [l EXCEPT !.totalScore = IF l.totalIsNum /\ isNum THEN l.totalScore + score ELSE 0,
            !.totalIsNum = l.totalIsNum /\ isNum]

\* One entry pushed and the loop moves on.
Push(l, entry) ==
  [l EXCEPT !.gradedResults = Append(l.gradedResults, entry), !.k = l.k + 1]

\* lines 63-72: no answer record for the question
NoAnswerEntry(q) ==
  GradedEntry(q.id, 0, TRUE, Weight(q), "high", <<"No answer provided">>)

\* The mcq branch with a confidence that follows the answer: low when the
\* label is not the correct one.
McqEntryUnsure(q, answer) ==
  LET correctChoice == CorrectChoice(q.choices)
      isCorrect == answer.choiceLabel = correctChoice.label
  IN  GradedEntry(q.id, IF isCorrect THEN Weight(q) ELSE 0, TRUE, Weight(q),
                  IF isCorrect THEN "high" ELSE "low",
                  IF isCorrect THEN <<"Correct answer!">>
                  ELSE <<"Incorrect. The correct answer was", correctChoice.label>>)

\* lines 74-87
McqEntry(q, answer) ==
  LET correctChoice == CorrectChoice(q.choices)
      isCorrect == answer.choiceLabel = correctChoice.label
  IN  GradedEntry(q.id, IF isCorrect THEN Weight(q) ELSE 0, TRUE, Weight(q), "high",
                  IF isCorrect THEN <<"Correct answer!">>
                  ELSE <<"Incorrect. The correct answer was", correctChoice.label>>)

\* lines 121-133: response.ok is false
StatusFallbackEntry(q) ==
  GradedEntry(q.id, FloorHalf(Weight(q)), TRUE, Weight(q), "low",
              <<"Auto-grading failed - manual review required">>)

\* lines 138-147: the catch around JSON.parse
ParseFallbackEntry(q) ==
  GradedEntry(q.id, FloorSeventy(Weight(q)), TRUE, Weight(q), "low",
              <<"Grading response parsing failed - manual review recommended">>)

\* lines 149-156: the oracle's object is used as returned
OracleEntry(q, reply) ==
  GradedEntry(q.id, reply.score, reply.scoreIsNum, Weight(q), reply.confidence,
              <<reply.text>>)

\* lines 89-157: the short-answer branch for one reply of the oracle.  A
\* rejected fetch, an unreadable body (response.json() at line 135) and a
\* null gradingResult (line 149) throw outside the inner try: line 185.
ShortEntry(q, reply) ==
  CASE reply.kind = "status" -> StatusFallbackEntry(q)
    [] reply.kind = "notjson" -> ParseFallbackEntry(q)
    [] OTHER -> OracleEntry(q, reply)

ShortAnswerBranch(l, q, reply) ==
  LET called == [l EXCEPT !.oracleLog = Append(l.oracleLog, [id |-> q.id, reply |-> reply])]
      entry == ShortEntry(q, reply)
  IN  IF reply.kind \in {"throws", "unreadable", "null"}
      THEN Respond(called, 500, ErrorBody("grade function error"))
      ELSE Push(AddScore(called, entry.score, entry.scoreIsNum), entry)

\* The lookup with its error left unread: the handler goes on with no answers.
FetchSubmissionUnchecked(i) ==
  LET l == inv[i]
      found == l.submissionId \in DOMAIN submissions /\ ~rowSecurity
  IN
  /\ deployed = "submissions"
  /\ l.pc = "fetchSubmission"
  /\ inv' = [inv EXCEPT ![i] =
               [l EXCEPT !.pc = "fetchQuestions",
                         !.answers = IF found THEN submissions[l.submissionId].answers
                                     ELSE <<>>]]
  /\ UNCHANGED <<client, gen, deployed, rowSecurity, oracle, tables>>

\* lines 28-38; .single() gives an error of its own when it finds no row
FetchSubmission(i) ==
  LET l == inv[i] IN
  /\ deployed = "submissions"
  /\ l.pc = "fetchSubmission"
  /\ \E dbOk \in BOOLEAN :
       inv' = [inv EXCEPT ![i] =
                 IF dbOk /\ l.submissionId \in DOMAIN submissions /\ ~rowSecurity
                 THEN [l EXCEPT !.pc = "fetchQuestions",
                                !.answers = submissions[l.submissionId].answers]
                 ELSE Respond(l, 500, ErrorBody(IF dbOk THEN "no rows returned"
                                                ELSE "submission fetch error"))]
  /\ UNCHANGED <<client, gen, deployed, rowSecurity, oracle, tables>>

\* lines 40-55; the select names no order
FetchQuestions(i) ==
  LET l == inv[i] IN
  /\ deployed = "submissions"
  /\ l.pc = "fetchQuestions"
  /\ \E dbOk \in BOOLEAN, fetched \in Orders(questions) :
       inv' = [inv EXCEPT ![i] =
                 IF dbOk
                 THEN [l EXCEPT !.pc = "loop", !.questions = fetched, !.k = 1]
                 ELSE Respond(l, 500, ErrorBody("questions fetch error"))]
  /\ UNCHANGED <<client, gen, deployed, rowSecurity, oracle, tables>>

InLoop(i) ==
  /\ deployed = "submissions"
  /\ inv[i].pc = "loop"
  /\ inv[i].k <= Len(inv[i].questions)

\* lines 57-72
GradeNoAnswer(i) ==
  LET l == inv[i]
      q == l.questions[l.k]
      counted == [l EXCEPT !.maxPossibleScore = l.maxPossibleScore + Weight(q)]
  IN
  /\ InLoop(i)
  /\ Find(l.answers, q.id) = NoAnswer
  /\ inv' = [inv EXCEPT ![i] = Push(counted, NoAnswerEntry(q))]
  /\ UNCHANGED <<client, gen, deployed, rowSecurity, oracle, tables>>

\* lines 57-61, 74-87
GradeMcq(i) ==
  LET l == inv[i]
      q == l.questions[l.k]
      answer == Find(l.answers, q.id)
      counted == [l EXCEPT !.maxPossibleScore = l.maxPossibleScore + Weight(q)]
      entry == McqEntry(q, answer)
  IN
  /\ InLoop(i)
  /\ answer # NoAnswer
  /\ q.type = "mcq"
  /\ inv' = [inv EXCEPT ![i] = Push(AddScore(counted, entry.score, TRUE), entry)]
  /\ UNCHANGED <<client, gen, deployed, rowSecurity, oracle, tables>>

\* lines 57-61, 88-157
GradeShort(i) ==
  LET l == inv[i]
      q == l.questions[l.k]
      counted == [l EXCEPT !.maxPossibleScore = l.maxPossibleScore + Weight(q)]
  IN
  /\ InLoop(i)
  /\ Find(l.answers, q.id) # NoAnswer
  /\ q.type # "mcq"
  /\ \E reply \in oracle :
       inv' = [inv EXCEPT ![i] = ShortAnswerBranch(counted, q, reply)]
  /\ UNCHANGED <<client, gen, deployed, rowSecurity, oracle, tables>>

\* JSON.stringify writes NaN as null.
Stored(score, isNum) == IF isNum THEN [score |-> score, scoreIsNum |-> TRUE] ELSE NoScore

\* The final update without its .eq('id', submissionId): every row is written.
UpdateSubmissionAll(i) ==
  LET l == inv[i] IN
  /\ deployed = "submissions"
  /\ l.pc = "loop"
  /\ l.k > Len(l.questions)
  /\ submissions' = [s \in DOMAIN submissions |->
                       [submissions[s] EXCEPT !.score = Stored(l.totalScore, l.totalIsNum),
                                              !.graded = l.gradedResults,
                                              !.updates = @ + 1]]
  /\ inv' = [inv EXCEPT ![i] =
               Respond(l, 200,
                       [success |-> TRUE,
                        totalScore |-> Stored(l.totalScore, l.totalIsNum),
                        maxPossibleScore |-> l.maxPossibleScore,
                        graded |-> l.gradedResults])]
  /\ UNCHANGED <<client, gen, deployed, rowSecurity, oracle, questions, quiz_submissions,
                 question_responses>>

\* lines 160-194
UpdateSubmission(i) ==
  LET l == inv[i] IN
  /\ deployed = "submissions"
  /\ l.pc = "loop"
  /\ l.k > Len(l.questions)
  /\ \E dbOk \in BOOLEAN :
       IF dbOk
       THEN /\ submissions' =
                 IF l.submissionId \in DOMAIN submissions /\ ~rowSecurity
                 THEN [submissions EXCEPT ![l.submissionId] =
                         [@ EXCEPT !.score = Stored(l.totalScore, l.totalIsNum),
                                   !.graded = l.gradedResults,
                                   !.updates = @ + 1]]
                 ELSE submissions
            /\ inv' = [inv EXCEPT ![i] =
                         Respond(l, 200,
                                 [success |-> TRUE,
                                  totalScore |-> Stored(l.totalScore, l.totalIsNum),
                                  maxPossibleScore |-> l.maxPossibleScore,
                                  graded |-> l.gradedResults])]
       ELSE /\ submissions' = submissions
            /\ inv' = [inv EXCEPT ![i] = Respond(l, 500, ErrorBody("submission update error"))]
  /\ UNCHANGED <<client, gen, deployed, rowSecurity, oracle, questions, quiz_submissions, question_responses>>

----------------------------------------------------------------------------
(* The "responses" version: unnamed/part_004, lines 1-318                  *)

Grading(score, maxScore, feedback, confidence, requiresReview) ==
  [score |-> score, maxScore |-> maxScore, feedback |-> feedback,
   confidence |-> confidence, requiresReview |-> requiresReview]

\* lines 290-297: the condition under which 'Invalid grading format' is thrown
InvalidGrading(grading, maxPoints) ==
  \/ ~grading.scoreIsNum
  \/ grading.score < 0
  \/ grading.score > maxPoints
  \/ grading.text \in {"undefined", ""}
  \/ grading.confidence \notin ConfidenceLabels

Min(a, b) == IF a < b THEN a ELSE b
Max(a, b) == IF a > b THEN a ELSE b

\* lines 216-318, for one reply of the oracle
gradeShortAnswer(maxPoints, reply) ==
  IF reply.kind = "status"
  THEN Grading(0, maxPoints, "Unable to grade automatically. Manual review required.",
               "low", TRUE)
  ELSE IF reply.kind # "object" \/ InvalidGrading(reply, maxPoints)
  THEN Grading(0, maxPoints, "Automatic grading failed. Manual review required.",
               "low", TRUE)
  ELSE Grading(Min(Max(reply.score, 0), maxPoints), maxPoints, reply.text,
               reply.confidence,
               reply.requiresReview = "true" \/ reply.confidence = "low")

\* A lower pass mark: half of the question's points.
HalfOfPoints(score, points) == score * 10 >= points * 5

\* line 161: grading.score >= question.points * 0.7
SeventyPercent(score, points) == score * 10 >= points * 7

\* lines 119-121
MultipleChoiceCorrect(response) ==
  LET selectedIndex == parseInt(response.student_answer)
  IN  selectedIndex.isNum /\ selectedIndex.value = response.questions.correct_answer_index

\* lines 133-139
MultipleChoiceResult(response) ==
  LET question == response.questions
      isCorrect == MultipleChoiceCorrect(response)
  IN  [questionId |-> question.id,
       questionType |-> "multiple_choice",
       isCorrect |-> isCorrect,
       pointsEarned |-> IF isCorrect THEN question.points ELSE 0,
       maxPoints |-> question.points]

\* lines 169-177
ShortAnswerResult(question, grading) ==
  [questionId |-> question.id,
   questionType |-> "short_answer",
   pointsEarned |-> grading.score,
   maxPoints |-> question.points,
   feedback |-> grading.feedback,
   confidence |-> grading.confidence,
   requiresReview |-> grading.requiresReview]

\* lines 35-61
Authenticate(i) ==
  LET l == inv[i] IN
  /\ deployed = "responses"
  /\ l.pc = "authenticate"
  /\ inv' = [inv EXCEPT ![i] =
               IF l.caller = "no header"
               THEN Respond(l, 401, ErrorBody("No authorization header"))
               ELSE IF l.caller = "bad token"
               THEN Respond(l, 401, ErrorBody("Unauthorized"))
               ELSE IF l.submissionId = ""
               THEN Respond(l, 400, ErrorBody("Submission ID is required"))
               ELSE [l EXCEPT !.pc = "fetchSubmission"]]
  /\ UNCHANGED <<client, gen, deployed, rowSecurity, oracle, tables>>

\* lines 65-88
FetchQuizSubmission(i) ==
  LET l == inv[i] IN
  /\ deployed = "responses"
  /\ l.pc = "fetchSubmission"
  /\ \E dbOk \in BOOLEAN :
       inv' = [inv EXCEPT ![i] =
                 IF ~dbOk \/ l.submissionId \notin DOMAIN quiz_submissions
                 THEN Respond(l, 404, ErrorBody("Submission not found"))
                 ELSE IF /\ quiz_submissions[l.submissionId].student_id # l.caller
                         /\ quiz_submissions[l.submissionId].created_by # l.caller
                 THEN Respond(l, 403, ErrorBody("Not authorized to grade this submission"))
                 ELSE [l EXCEPT !.pc = "fetchResponses"]]
  /\ UNCHANGED <<client, gen, deployed, rowSecurity, oracle, tables>>

\* lines 90-110; the select names no order
FetchResponses(i) ==
  LET l == inv[i]
      rows == SelectSeq(question_responses, LAMBDA r : r.submission_id = l.submissionId)
  IN
  /\ deployed = "responses"
  /\ l.pc = "fetchResponses"
  /\ \E dbOk \in BOOLEAN, fetched \in Orders(rows) :
       inv' = [inv EXCEPT ![i] =
                 IF dbOk
                 THEN [l EXCEPT !.pc = "loop", !.k = 1, !.responses = fetched]
                 ELSE Respond(l, 500, ErrorBody("Failed to fetch responses"))]
  /\ UNCHANGED <<client, gen, deployed, rowSecurity, oracle, tables>>

InResponseLoop(i) ==
  /\ deployed = "responses"
  /\ inv[i].pc = "loop"
  /\ inv[i].k <= Len(inv[i].responses)

\* .update(patch).eq('id', id) on question_responses; the handler does not
\* look at the error the call returns, so a failed update changes nothing
\* and goes unnoticed.
UpdateResponse(id, patch, dbOk) ==
  IF dbOk
  THEN [n \in 1..Len(question_responses) |->
          IF question_responses[n].id = id
          THEN [f \in DOMAIN question_responses[n] |->
                  IF f \in DOMAIN patch THEN patch[f] ELSE question_responses[n][f]]
          ELSE question_responses[n]]
  ELSE question_responses

\* lines 113-139
GradeMultipleChoice(i) ==
  LET l == inv[i]
      response == l.responses[l.k]
      question == response.questions
      isCorrect == MultipleChoiceCorrect(response)
      pointsEarned == IF isCorrect THEN question.points ELSE 0
      patch == [graded |-> TRUE, is_correct |-> isCorrect,
                points_earned |-> pointsEarned]
  IN
  /\ InResponseLoop(i)
  /\ question.question_type = "multiple_choice"
  /\ \E dbOk \in BOOLEAN :
       question_responses' = UpdateResponse(response.id, patch, dbOk)
  /\ inv' = [inv EXCEPT ![i] =
               [l EXCEPT !.maxPossibleScore = @ + question.points,
                         !.totalScore = @ + pointsEarned,
                         !.k = @ + 1,
                         !.gradedResults = Append(@, MultipleChoiceResult(response))]]
  /\ UNCHANGED <<client, gen, deployed, rowSecurity, oracle, questions, submissions, quiz_submissions>>

\* lines 113-115, 141-177
GradeShortAnswer(i) ==
  LET l == inv[i]
      response == l.responses[l.k]
      question == response.questions
  IN
  /\ InResponseLoop(i)
  /\ question.question_type = "short_answer"
  /\ \E reply \in oracle, dbOk \in BOOLEAN :
       LET grading == gradeShortAnswer(question.points, reply)
           patch ==
             [graded |-> TRUE,
              is_correct |-> SeventyPercent(grading.score, question.points),
              points_earned |-> grading.score,
              ai_feedback |-> grading.feedback,
              confidence |-> grading.confidence,
              requires_manual_review |-> grading.requiresReview]
       IN
       /\ question_responses' = UpdateResponse(response.id, patch, dbOk)
       /\ inv' = [inv EXCEPT ![i] =
                    [l EXCEPT !.maxPossibleScore = @ + question.points,
                              !.totalScore = @ + grading.score,
                              !.needsReview = @ \/ grading.requiresReview,
                              !.k = @ + 1,
                              !.oracleLog = Append(@, [id |-> question.id, reply |-> reply]),
                              !.gradedResults = Append(@, ShortAnswerResult(question, grading))]]
  /\ UNCHANGED <<client, gen, deployed, rowSecurity, oracle, questions, submissions, quiz_submissions>>

\* lines 181-205; the update's error is not looked at either.  The
\* response's percentage (total / max * 100) is left out.
UpdateQuizSubmission(i) ==
  LET l == inv[i] IN
  /\ deployed = "responses"
  /\ l.pc = "loop"
  /\ l.k > Len(l.responses)
  /\ \E dbOk \in BOOLEAN :
       quiz_submissions' =
         IF dbOk
         THEN [quiz_submissions EXCEPT ![l.submissionId] =
                 [@ EXCEPT !.total_score = [score |-> l.totalScore, scoreIsNum |-> TRUE],
                           !.max_possible_score = l.maxPossibleScore,
                           !.is_completed = TRUE,
                           !.needs_review = l.needsReview,
                           !.updates = @ + 1]]
         ELSE quiz_submissions
  /\ inv' = [inv EXCEPT ![i] =
               Respond(l, 200,
                       [submissionId |-> l.submissionId,
                        totalScore |-> l.totalScore,
                        maxPossibleScore |-> l.maxPossibleScore,
                        needsReview |-> l.needsReview,
                        results |-> l.gradedResults,
                        success |-> TRUE])]
  /\ UNCHANGED <<client, gen, deployed, rowSecurity, oracle, questions, submissions, question_responses>>

----------------------------------------------------------------------------

Next ==
  \E i \in Invocations :
    \/ Receive(i)
    \/ FetchSubmission(i)
    \/ FetchQuestions(i)
    \/ GradeNoAnswer(i)
    \/ GradeMcq(i)
    \/ GradeShort(i)
    \/ UpdateSubmission(i)
    \/ Authenticate(i)
    \/ FetchQuizSubmission(i)
    \/ FetchResponses(i)
    \/ GradeMultipleChoice(i)
    \/ GradeShortAnswer(i)
    \/ UpdateQuizSubmission(i)

Spec == Init /\ [][Next]_vars

----------------------------------------------------------------------------
(* Two requests at a time, on two submissions of the quiz the migration    *)
(* seeds: q1 (Choice, B correct, weight 1) and q2 (open-ended, weight 2).  *)
(* Submission s1 is the student's, s2 another user's.                      *)

QuestionQ(id) == CHOOSE q \in QuestionsQ : q.id = id
QuestionRow(id) == CHOOSE q \in QuestionRows : q.id = id

\* Option B is index 1 of the question's options.
ReferenceAnswers == <<Answer("q1", "undefined", "B"), Answer("q2", "some text", "undefined")>>
\* The other submission leaves q2 unanswered.
OtherAnswers == <<Answer("q1", "undefined", "A")>>

ReferenceResponses ==
  <<ResponseRow(QuestionRow("q1"), <<"1">>),
    ResponseRow(QuestionRow("q2"), <<"t", "e", "x", "t">>)>>

OtherResponses ==
  <<[ResponseRow(QuestionRow("q1"), <<"0">>) EXCEPT !.id = <<"s2", "q1">>,
                                                     !.submission_id = "s2"],
    [ResponseRow(QuestionRow("q2"), <<"t", "e", "x", "t">>) EXCEPT !.id = <<"s2", "q2">>,
                                                                   !.submission_id = "s2"]>>

\* Two gradings the oracle can return, an error status, a rejected fetch.
FewReplies ==
  {Reply("object", TRUE, 15, "medium", "oracle text", "undefined"),
   Reply("object", TRUE, 10, "medium", "oracle text", "undefined"),
   Reply("status", FALSE, 0, "undefined", "undefined", "undefined"),
   Reply("throws", FALSE, 0, "undefined", "undefined", "undefined")}

InitConcurrent ==
  /\ \/ /\ deployed = "submissions"
        /\ rowSecurity = FALSE
        /\ questions = <<QuestionQ("q1"), QuestionQ("q2")>>
        /\ submissions = [s \in {"s1", "s2"} |->
                            IF s = "s1" THEN SubmissionRow(ReferenceAnswers)
                            ELSE [SubmissionRow(OtherAnswers) EXCEPT !.user_id = "other"]]
        /\ quiz_submissions = EmptyTable
        /\ question_responses = <<>>
     \/ /\ deployed = "responses"
        /\ rowSecurity = TRUE
        /\ questions = <<QuestionRow("q1"), QuestionRow("q2")>>
        /\ submissions = EmptyTable
        /\ quiz_submissions = [s \in {"s1", "s2"} |->
                                 IF s = "s1" THEN QuizSubmissionRow
                                 ELSE [QuizSubmissionRow EXCEPT !.student_id = "other"]]
        /\ question_responses = ReferenceResponses \o OtherResponses
  /\ oracle = FewReplies
  /\ client = NoClient
  /\ gen = NoGenerator
  /\ inv = [i \in {"g1", "g2"} |-> IdleInvocation]

SpecConcurrent == InitConcurrent /\ [][Next]_vars

----------------------------------------------------------------------------
(* The generate-quiz function, in its three versions:                      *)
(*   "teacher"  supabase/functions/generate-quiz/index.ts, lines 1-267     *)
(*   "simple"   the same file, lines 268-407                               *)
(*   "course"   unnamed/part_004, lines 319-518                            *)
(* gen.quizzes holds the ids of the stored quizzes rows, gen.questions the *)
(* ids of the quizzes whose questions rows are stored; a run's quiz has    *)
(* the run's name as its id.                                               *)

GenerateVersions == {"teacher", "simple", "course"}
GenerateRuns == {"r1", "r2"}

\* What the chat completion gives: an error status, content that is not
\* JSON, a JSON object without a questions array, a quiz with questions.
GeneratedContents == {"status", "notjson", "noquestions", "quiz"}

IdleRun == [pc |-> "idle", content |-> "none", status |-> 0, questionsFailed |-> FALSE]

InitGenerate ==
  /\ deployed = "submissions"
  /\ rowSecurity = TRUE
  /\ questions = <<>>
  /\ submissions = EmptyTable
  /\ quiz_submissions = EmptyTable
  /\ question_responses = <<>>
  /\ oracle = {}
  /\ client = NoClient
  /\ inv = EmptyTable
  /\ \E version \in GenerateVersions :
       gen = [variant |-> version, quizzes |-> {}, questions |-> {},
              runs |-> [r \in GenerateRuns |-> IdleRun]]

GenRun(r, run) == [gen EXCEPT !.runs[r] = run]

GenRespond(run, status) == [run EXCEPT !.pc = "done", !.status = status]

\* index.ts 138-195 / 316-349; part_004 408-458: the completion is fetched
\* and parsed.  Only the "teacher" version looks for the questions array.
GenerateContent(r) ==
  LET run == gen.runs[r] IN
  /\ run.pc = "idle"
  /\ \E content \in GeneratedContents :
       gen' = GenRun(r,
                IF \/ content \in {"status", "notjson"}
                   \/ content = "noquestions" /\ gen.variant = "teacher"
                THEN GenRespond([run EXCEPT !.content = content], 500)
                ELSE [run EXCEPT !.content = content, !.pc = "insertQuiz"])
  /\ UNCHANGED <<client, deployed, rowSecurity, oracle, tables, inv>>

\* index.ts 197-221 / 351-368; part_004 460-479
InsertQuiz(r) ==
  LET run == gen.runs[r] IN
  /\ run.pc = "insertQuiz"
  /\ \E dbOk \in BOOLEAN :
       gen' = IF dbOk
              THEN [GenRun(r, [run EXCEPT !.pc = "insertQuestions"])
                      EXCEPT !.quizzes = @ \cup {r}]
              ELSE GenRun(r, GenRespond(run, 500))
  /\ UNCHANGED <<client, deployed, rowSecurity, oracle, tables, inv>>

\* index.ts 223-258 / 372-396; part_004 483-507.  quizData.questions.map
\* throws when the object has no questions array.
InsertQuestions(r) ==
  LET run == gen.runs[r] IN
  /\ run.pc = "insertQuestions"
  /\ \E dbOk \in BOOLEAN :
       gen' = IF run.content = "noquestions"
              THEN GenRun(r, GenRespond(run, 500))
              ELSE IF dbOk
              THEN [GenRun(r, GenRespond(run, 200)) EXCEPT !.questions = @ \cup {r}]
              ELSE IF gen.variant = "teacher"
              THEN GenRun(r, [run EXCEPT !.pc = "cleanUp", !.questionsFailed = TRUE])
              ELSE GenRun(r, GenRespond([run EXCEPT !.questionsFailed = TRUE], 500))
  /\ UNCHANGED <<client, deployed, rowSecurity, oracle, tables, inv>>

\* index.ts 240-248: the delete is awaited, its error is not read.
CleanUp(r) ==
  LET run == gen.runs[r] IN
  /\ run.pc = "cleanUp"
  /\ \E dbOk \in BOOLEAN :
       gen' = [GenRun(r, GenRespond(run, 500))
                 EXCEPT !.quizzes = IF dbOk THEN @ \ {r} ELSE @]
  /\ UNCHANGED <<client, deployed, rowSecurity, oracle, tables, inv>>

NextGenerate ==
  \E r \in GenerateRuns :
    \/ GenerateContent(r)
    \/ InsertQuiz(r)
    \/ InsertQuestions(r)
    \/ CleanUp(r)

SpecGenerate == InitGenerate /\ [][NextGenerate]_vars

----------------------------------------------------------------------------
(* SimpleTakeQuiz (components/SimpleQuizResults.tsx, lines 726-960): the   *)
(* student takes the seeded quiz and submits it to the "submissions"       *)
(* version of the grade function.  client.currentQuestionIndex counts from *)
(* 0 as in the source.  React renders after every state change, so a       *)
(* button's disabled condition is a guard of its click.                    *)

\* How many times the student presses Submit Quiz.
MaxAttempts == 2

AttemptIds == <<"s1", "s2", "s3">>
AttemptInvocations == <<"g1", "g2", "g3">>

NoRun == [pc |-> "none"]

\* What the student can type into the text area.
TypedTexts == {"", "some text", "other text"}

SimpleTakeQuizMounted ==
  [component |-> "SimpleTakeQuiz", loading |-> TRUE, loadFailed |-> FALSE,
   questions |-> <<>>, currentQuestionIndex |-> 0, answers |-> <<>>,
   submitting |-> FALSE, attempts |-> 0, run |-> NoRun, completed |-> "none"]

InitSimpleTakeQuiz ==
  /\ deployed = "submissions"
  /\ rowSecurity \in BOOLEAN
  /\ questions = <<QuestionQ("q1"), QuestionQ("q2")>>
  /\ submissions = EmptyTable
  /\ quiz_submissions = EmptyTable
  /\ question_responses = <<>>
  /\ oracle = FewReplies
  /\ client = SimpleTakeQuizMounted
  /\ gen = NoGenerator
  /\ inv = [i \in Range(AttemptInvocations) |-> IdleInvocation]

Simple == client.component = "SimpleTakeQuiz" /\ client.completed = "none"

\* lines 740-764; .order('created_at') is the quiz's own order
SimpleFetchQuestions ==
  /\ Simple /\ client.loading /\ ~client.loadFailed
  /\ \E dbOk \in BOOLEAN :
       client' = IF dbOk
                 THEN [client EXCEPT !.questions = questions, !.loading = FALSE]
                 ELSE [client EXCEPT !.loadFailed = TRUE]
  /\ UNCHANGED <<gen, deployed, rowSecurity, oracle, tables, inv>>

\* { ...prev, [questionId]: answer }: the key keeps its place, its value is
\* replaced; Object.values lists the values in the keys' order.
SetAnswer(answers, answer) ==
  IF \E n \in 1..Len(answers) : answers[n].questionId = answer.questionId
  THEN [n \in 1..Len(answers) |->
          IF answers[n].questionId = answer.questionId THEN answer ELSE answers[n]]
  ELSE Append(answers, answer)

\* !answer || (!answer.answerText && !answer.choiceLabel)
SimpleUnanswered(answer) ==
  \/ answer = NoAnswer
  \/ answer.answerText \in {"undefined", ""} /\ answer.choiceLabel \in {"undefined", ""}

\* lines 766-771, from the radio group (lines 899-902) or the text area
\* (lines 920-926, disabled while submitting)
SimpleHandleAnswerChange ==
  /\ Simple /\ ~client.loading
  /\ client.currentQuestionIndex < Len(client.questions)
  /\ LET q == client.questions[client.currentQuestionIndex + 1] IN
     \E answer \in IF q.type = "mcq"
                   THEN {Answer(q.id, "undefined", q.choices[n].label) :
                           n \in 1..Len(q.choices)}
                   ELSE {Answer(q.id, text, "undefined") : text \in TypedTexts} :
       /\ q.type = "mcq" \/ ~client.submitting
       /\ client' = [client EXCEPT !.answers = SetAnswer(@, answer)]
  /\ UNCHANGED <<gen, deployed, rowSecurity, oracle, tables, inv>>

\* lines 773-796 with the button's disabled condition (line 938): the next
\* question, or on the last one the start of handleSubmit, which takes the
\* answers as they are then (line 799)
SimpleHandleNext ==
  /\ Simple /\ ~client.loading /\ ~client.submitting
  /\ client.currentQuestionIndex < Len(client.questions)
  /\ ~SimpleUnanswered(Find(client.answers,
                            client.questions[client.currentQuestionIndex + 1].id))
  /\ IF client.currentQuestionIndex < Len(client.questions) - 1
     THEN client' = [client EXCEPT !.currentQuestionIndex = @ + 1]
     ELSE /\ client.attempts < MaxAttempts
          /\ client' = [client EXCEPT !.submitting = TRUE, !.attempts = @ + 1,
                                      !.run = [pc |-> "insert",
                                               answers |-> client.answers]]
  /\ UNCHANGED <<gen, deployed, rowSecurity, oracle, tables, inv>>

\* lines 800-813: every handleSubmit inserts a row of its own; the student
\* is signed in, so the insert policy lets the row in
SimpleInsertSubmission ==
  /\ Simple /\ client.run.pc = "insert"
  /\ LET id == AttemptIds[client.attempts] IN
     \E dbOk \in BOOLEAN :
       IF dbOk
       THEN /\ submissions' = [s \in DOMAIN submissions \cup {id} |->
                                IF s = id THEN SubmissionRow(client.run.answers)
                                ELSE submissions[s]]
            /\ client' = [client EXCEPT !.run = [pc |-> "invoke", submissionId |-> id]]
       ELSE /\ client' = [client EXCEPT !.run = NoRun, !.submitting = FALSE]
            /\ UNCHANGED submissions
  /\ UNCHANGED <<gen, deployed, rowSecurity, oracle, questions, quiz_submissions,
                 question_responses, inv>>

\* lines 816-818: the request of this attempt reaches the grade function
SimpleInvokeGrade ==
  /\ Simple /\ client.run.pc = "invoke"
  /\ LET i == AttemptInvocations[client.attempts] IN
     /\ inv[i].pc = "idle"
     /\ inv' = [inv EXCEPT ![i] =
                  [@ EXCEPT !.caller = "student",
                            !.submissionId = client.run.submissionId,
                            !.pc = "fetchSubmission"]]
     /\ client' = [client EXCEPT !.run = [pc |-> "await", submissionId |-> @.submissionId,
                                          invocation |-> i]]
  /\ UNCHANGED <<gen, deployed, rowSecurity, oracle, tables>>

\* lines 820-838: a response that is not 2xx is an error of invoke
SimpleGradeReturned ==
  /\ Simple /\ client.run.pc = "await"
  /\ inv[client.run.invocation].pc = "done"
  /\ client' = IF inv[client.run.invocation].response.status = 200
               THEN [client EXCEPT !.run = NoRun, !.completed = client.run.submissionId]
               ELSE [client EXCEPT !.run = NoRun, !.submitting = FALSE]
  /\ UNCHANGED <<gen, deployed, rowSecurity, oracle, tables, inv>>

\* handleNext lets no question pass unanswered, so the grade function's
\* branch for a missing answer is not among the steps.
NextSimpleTakeQuiz ==
  \/ SimpleFetchQuestions
  \/ SimpleHandleAnswerChange
  \/ SimpleHandleNext
  \/ SimpleInsertSubmission
  \/ SimpleInvokeGrade
  \/ SimpleGradeReturned
  \/ \E i \in Invocations :
       \/ FetchSubmission(i)
       \/ FetchQuestions(i)
       \/ GradeMcq(i)
       \/ GradeShort(i)
       \/ UpdateSubmission(i)

SpecSimpleTakeQuiz == InitSimpleTakeQuiz /\ [][NextSimpleTakeQuiz]_vars

----------------------------------------------------------------------------
(* TakeQuiz (components/TakeQuiz.tsx): the student takes a quiz of the     *)
(* "responses" schema.  A render and the effects it runs are one step with *)
(* the state change that causes them.  A callback keeps the values of the  *)
(* render that made it: a 2-second timeout of handleNext carries the index *)
(* and the answers of its click.                                           *)

\* How many handleSubmit calls, and how many 2-second timeouts at a time.
MaxRuns == 2
MaxPending == 2

RunInvocations == <<"g1", "g2", "g3">>

\* quizzes.time_limit is INTEGER and may be NULL (generate-quiz stores the
\* request's optional timeLimit as it comes).
NullLimit == [null |-> TRUE, minutes |-> 0]
Minutes(m) == [null |-> FALSE, minutes |-> m]

\* quiz.time_limit * 60; in JavaScript null * 60 is 0
InitialTimeLeft(limit) == IF limit.null THEN 0 ELSE limit.minutes * 60

\* The quizzes taken: one without time limit, one of a minute.
Takes ==
  { [quiz |-> <<QuestionRow("q1"), QuestionRow("q2"), QuestionRow("q4")>>,
     time_limit |-> NullLimit],
    [quiz |-> <<QuestionRow("q2")>>,
     time_limit |-> Minutes(1)] }

\* What the student can have in the text area, and the radio items' values
\* (index.toString()).
TakeQuizTexts == {<<>>, <<"t", "e", "x">>, <<"t", "e", "x", "t">>}
TakeQuizOptions == {<<"0">>, <<"1">>}

\* The component as mounted; earlier is what the student left behind before
\* this visit.
TakeQuizMounted(limit, earlier) ==
  [component |-> "TakeQuiz", time_limit |-> limit, earlier |-> earlier,
   questions |-> <<>>, currentQuestionIndex |-> 0,
   answers |-> [id \in {} |-> <<>>], submissionId |-> "none",
   timeLeft |-> InitialTimeLeft(limit), loading |-> TRUE, loadFailed |-> FALSE,
   submitting |-> FALSE, showResult |-> {},
   pending |-> <<>>, runs |-> <<>>, closed |-> "open"]

\* Before this visit: nothing, a submission row of a visit that went no
\* further, or a completed submission.
Earlier == {"none", "started", "completed"}

CompletedResponse(q) ==
  [ResponseRow(q, <<>>) EXCEPT !.graded = TRUE,
                               !.requires_manual_review =
                                 (q.question_type = "short_answer")]

InitTakeQuiz ==
  /\ deployed = "responses"
  /\ rowSecurity = TRUE
  /\ submissions = EmptyTable
  /\ oracle = FewReplies
  /\ gen = NoGenerator
  /\ inv = [i \in Range(RunInvocations) |-> IdleInvocation]
  /\ \E take \in Takes, earlier \in Earlier :
       /\ questions = take.quiz
       /\ client = TakeQuizMounted(take.time_limit, earlier)
       /\ quiz_submissions =
            IF earlier = "none" THEN EmptyTable
            ELSE [s \in SubmissionIds |->
                    IF earlier = "started" THEN QuizSubmissionRow
                    ELSE [QuizSubmissionRow EXCEPT
                            !.total_score = [score |-> 0, scoreIsNum |-> TRUE],
                            !.is_completed = TRUE, !.needs_review = TRUE,
                            !.updates = 1]]
       /\ question_responses =
            IF earlier = "completed"
            THEN [n \in 1..Len(take.quiz) |-> CompletedResponse(take.quiz[n])]
            ELSE <<>>

TakeQuizOpen == client.component = "TakeQuiz" /\ client.closed = "open"

\* answers[question.id] || ''
AnswerOf(answers, id) == IF id \in DOMAIN answers THEN answers[id] ELSE <<>>

\* lines 185-190: without submission id nothing happens; else the run
\* starts with the answers of the render that made this handleSubmit.  A
\* run remembers its caller: the timer effect or handleNext.
HandleSubmit(c, answers, caller) ==
  IF c.submissionId = "none" THEN c
  ELSE [c EXCEPT !.submitting = TRUE,
                 !.runs = Append(@, [pc |-> "upsert", answers |-> answers,
                                     error |-> "none", caller |-> caller])]

\* lines 57-64: the timer effect runs after a render in which timeLeft or
\* submitting has changed; at 0 it calls handleSubmit
TimerEffect(before, c) ==
  IF /\ c.timeLeft # before.timeLeft \/ c.submitting # before.submitting
     /\ c.timeLeft = 0
  THEN HandleSubmit(c, c.answers, "effect")
  ELSE c

\* The renders a state change causes: handleSubmit called by the effect
\* sets submitting, which is a change the effect runs on again.
Rendered(before, c) ==
  IF c.closed # "open" THEN c
  ELSE LET first == TimerEffect(before, c) IN TimerEffect(c, first)

\* The load without the look at is_completed: a completed submission is
\* opened like one in progress.
fetchQuestionsAnyway ==
  /\ TakeQuizOpen /\ client.loading /\ ~client.loadFailed
  /\ \E questionsOk, lookupOk, insertOk \in BOOLEAN :
       LET existing == lookupOk /\ "s1" \in DOMAIN quiz_submissions
           started == [client EXCEPT !.questions = questions,
                                     !.submissionId = "s1", !.loading = FALSE]
       IN
       IF ~questionsOk
       THEN /\ client' = [client EXCEPT !.loadFailed = TRUE]
            /\ UNCHANGED quiz_submissions
       ELSE IF existing
       THEN /\ client' = started
            /\ UNCHANGED quiz_submissions
       ELSE IF insertOk /\ "s1" \notin DOMAIN quiz_submissions
       THEN /\ client' = started
            /\ quiz_submissions' =
                 [s \in {"s1"} |->
                    [QuizSubmissionRow EXCEPT !.max_possible_score =
                       Sum([n \in 1..Len(questions) |-> questions[n].points])]]
       ELSE /\ client' = [client EXCEPT !.loadFailed = TRUE]
            /\ UNCHANGED quiz_submissions
  /\ UNCHANGED <<gen, deployed, rowSecurity, oracle, questions, submissions,
                 question_responses, inv>>

\* lines 66-144, run by the mount effect (lines 52-54) with the student
\* signed in.  The lookup's error is not read: a failed lookup is taken for
\* "no submission yet".  quiz_submissions has UNIQUE(quiz_id, student_id).
fetchQuestionsAndCreateSubmission ==
  /\ TakeQuizOpen /\ client.loading /\ ~client.loadFailed
  /\ \E questionsOk, lookupOk, insertOk \in BOOLEAN :
       LET existing == lookupOk /\ "s1" \in DOMAIN quiz_submissions
           started == [client EXCEPT !.questions = questions,
                                     !.submissionId = "s1", !.loading = FALSE]
       IN
       IF ~questionsOk
       THEN /\ client' = [client EXCEPT !.loadFailed = TRUE]
            /\ UNCHANGED quiz_submissions
       ELSE IF existing /\ quiz_submissions["s1"].is_completed
       THEN /\ client' = [client EXCEPT !.closed = "back"]
            /\ UNCHANGED quiz_submissions
       ELSE IF existing
       THEN /\ client' = started
            /\ UNCHANGED quiz_submissions
       ELSE IF insertOk /\ "s1" \notin DOMAIN quiz_submissions
       THEN /\ client' = started
            /\ quiz_submissions' =
                 [s \in {"s1"} |->
                    [QuizSubmissionRow EXCEPT !.max_possible_score =
                       Sum([n \in 1..Len(questions) |-> questions[n].points])]]
       ELSE /\ client' = [client EXCEPT !.loadFailed = TRUE]
            /\ UNCHANGED quiz_submissions
  /\ UNCHANGED <<gen, deployed, rowSecurity, oracle, questions, submissions,
                 question_responses, inv>>

\* lines 57-59: one second has passed
Tick ==
  /\ TakeQuizOpen
  /\ client.timeLeft > 0 /\ ~client.submitting
  /\ client' = Rendered(client, [client EXCEPT !.timeLeft = @ - 1])
  /\ Len(client'.runs) <= MaxRuns
  /\ UNCHANGED <<gen, deployed, rowSecurity, oracle, tables, inv>>

\* lines 146-148, from the radio group (disabled while the question's
\* result is shown) or the text area (disabled while submitting)
TakeQuizHandleAnswerChange ==
  /\ TakeQuizOpen /\ ~client.loading
  /\ client.currentQuestionIndex < Len(client.questions)
  /\ LET q == client.questions[client.currentQuestionIndex + 1] IN
     \E answer \in IF q.question_type = "multiple_choice" THEN TakeQuizOptions
                   ELSE TakeQuizTexts :
       /\ IF q.question_type = "multiple_choice" THEN q.id \notin client.showResult
          ELSE ~client.submitting
       /\ client' = [client EXCEPT !.answers =
                       [id \in DOMAIN @ \cup {q.id} |->
                          IF id = q.id THEN answer ELSE @[id]]]
  /\ UNCHANGED <<gen, deployed, rowSecurity, oracle, tables, inv>>

\* lines 150-183 with the button's disabled condition (line 368): the
\* button stays enabled while a question's result is shown
TakeQuizHandleNext ==
  /\ TakeQuizOpen /\ ~client.loading /\ ~client.submitting
  /\ client.currentQuestionIndex < Len(client.questions)
  /\ LET q == client.questions[client.currentQuestionIndex + 1] IN
     /\ AnswerOf(client.answers, q.id) # <<>>
     /\ IF q.question_type = "multiple_choice"
        THEN /\ Len(client.pending) < MaxPending
             /\ client' = [client EXCEPT
                             !.showResult = @ \cup {q.id},
                             !.pending = Append(@, [index |-> client.currentQuestionIndex,
                                                    answers |-> client.answers])]
        ELSE IF client.currentQuestionIndex < Len(client.questions) - 1
        THEN client' = [client EXCEPT !.currentQuestionIndex = @ + 1]
        ELSE client' = Rendered(client, HandleSubmit(client, client.answers, "handleNext"))
  /\ Len(client'.runs) <= MaxRuns
  /\ UNCHANGED <<gen, deployed, rowSecurity, oracle, tables, inv>>

\* lines 167-174: the oldest timeout fires, with the index of its click
TimeoutFires ==
  /\ TakeQuizOpen
  /\ client.pending # <<>>
  /\ LET timeout == Head(client.pending)
         popped == [client EXCEPT !.pending = Tail(@)]
         q == client.questions[timeout.index + 1]
     IN
     client' = IF timeout.index < Len(client.questions) - 1
               THEN [popped EXCEPT !.currentQuestionIndex = timeout.index + 1,
                                   !.showResult = @ \ {q.id}]
               ELSE Rendered(popped, HandleSubmit(popped, timeout.answers, "handleNext"))
  /\ Len(client'.runs) <= MaxRuns
  /\ UNCHANGED <<gen, deployed, rowSecurity, oracle, tables, inv>>

\* The catch of handleSubmit (lines 221-229)
RunFails(n, error) ==
  LET failed == [client EXCEPT !.runs[n].pc = "failed", !.runs[n].error = error] IN
  Rendered(failed, [failed EXCEPT !.submitting = FALSE])

\* lines 193-204.  upsert without onConflict resolves conflicts on the
\* primary key; the rows carry no id, so they are inserted, and
\* UNIQUE(submission_id, question_id) refuses a second row of a question.
UpsertResponses(n) ==
  LET run == client.runs[n]
      responses == [k \in 1..Len(client.questions) |->
                      ResponseRow(client.questions[k],
                                  AnswerOf(run.answers, client.questions[k].id))]
      conflict == \E k \in 1..Len(responses), m \in 1..Len(question_responses) :
                    question_responses[m].id = responses[k].id
  IN
  /\ client.component = "TakeQuiz"
  /\ n \in 1..Len(client.runs)
  /\ run.pc = "upsert"
  /\ \E dbOk \in BOOLEAN :
       IF dbOk /\ ~conflict
       THEN /\ question_responses' = question_responses \o responses
            /\ client' = [client EXCEPT !.runs[n].pc = "invoke"]
       ELSE /\ client' = RunFails(n, IF dbOk THEN "conflict" ELSE "db")
            /\ UNCHANGED question_responses
  /\ Len(client'.runs) <= MaxRuns
  /\ UNCHANGED <<gen, deployed, rowSecurity, oracle, questions, submissions,
                 quiz_submissions, inv>>

\* lines 207-209: the request reaches the grade function with the
\* student's token
InvokeGrade(n) ==
  /\ client.component = "TakeQuiz"
  /\ n \in 1..Len(client.runs)
  /\ client.runs[n].pc = "invoke"
  /\ inv[RunInvocations[n]].pc = "idle"
  /\ inv' = [inv EXCEPT ![RunInvocations[n]] =
               [@ EXCEPT !.caller = "student", !.submissionId = client.submissionId,
                         !.pc = "authenticate"]]
  /\ client' = [client EXCEPT !.runs[n].pc = "await"]
  /\ UNCHANGED <<gen, deployed, rowSecurity, oracle, tables>>

\* lines 211-229: onComplete, or the catch when the response is not 2xx
GradeReturned(n) ==
  /\ client.component = "TakeQuiz"
  /\ n \in 1..Len(client.runs)
  /\ client.runs[n].pc = "await"
  /\ inv[RunInvocations[n]].pc = "done"
  /\ client' = IF inv[RunInvocations[n]].response.status = 200
               THEN [client EXCEPT !.runs[n].pc = "done",
                                   !.closed = IF @ = "open" THEN "completed" ELSE @]
               ELSE RunFails(n, "grade")
  /\ Len(client'.runs) <= MaxRuns
  /\ UNCHANGED <<gen, deployed, rowSecurity, oracle, tables, inv>>

NextTakeQuiz ==
  \/ fetchQuestionsAndCreateSubmission
  \/ Tick
  \/ TakeQuizHandleAnswerChange
  \/ TakeQuizHandleNext
  \/ TimeoutFires
  \/ \E n \in 1..MaxRuns :
       \/ UpsertResponses(n)
       \/ InvokeGrade(n)
       \/ GradeReturned(n)
  \/ \E i \in Invocations :
       \/ Authenticate(i)
       \/ FetchQuizSubmission(i)
       \/ FetchResponses(i)
       \/ GradeMultipleChoice(i)
       \/ GradeShortAnswer(i)
       \/ UpdateQuizSubmission(i)

SpecTakeQuiz == InitTakeQuiz /\ [][NextTakeQuiz]_vars

----------------------------------------------------------------------------
(* Vocabulary of the properties *)

Ended(i) == inv[i].pc = "done"

\* The invocation answered with a grading result.
Finished(i) == Ended(i) /\ inv[i].response.status = 200

\* The per-question outcomes of a grading result.
Outcomes(i) ==
  IF deployed = "submissions" THEN inv[i].response.body.graded
  ELSE inv[i].response.body.results

\* What the loop of invocation i runs over.
Items(i) == IF deployed = "submissions" THEN inv[i].questions ELSE inv[i].responses

LoopCompleted(i) == inv[i].k > Len(Items(i))

\* The reply the oracle gave for question id (logged at most once per run).
Called(i, id) == \E n \in 1..Len(inv[i].oracleLog) : inv[i].oracleLog[n].id = id

ReplyFor(i, id) ==
  inv[i].oracleLog[CHOOSE n \in 1..Len(inv[i].oracleLog) : inv[i].oracleLog[n].id = id].reply

\* An outcome's review flag; an outcome without the field asks for no review.
Flagged(o) == "requiresReview" \in DOMAIN o /\ o.requiresReview

HasConfidence(o) == "confidence" \in DOMAIN o

\* An outcome's fields under the names of either version.
IdOf(o) == IF deployed = "submissions" THEN o.id ELSE o.questionId
ScoreOf(o) == IF deployed = "submissions" THEN o.score ELSE o.pointsEarned
WeightOf(o) == IF deployed = "submissions" THEN o.max ELSE o.maxPoints
NumericScore(o) == deployed = "submissions" => o.scoreIsNum
TextOf(o) ==
  IF deployed = "submissions" THEN o.explanation
  ELSE IF "feedback" \in DOMAIN o THEN <<o.feedback>> ELSE <<>>

\* The outcomes invocation i has computed for question id.
OutcomesFor(i, id) == {o \in Range(inv[i].gradedResults) : IdOf(o) = id}

\* The text submitted for question id, "" when none was.
SubmittedText(i, id) ==
  IF deployed = "submissions"
  THEN LET answer == Find(inv[i].answers, id)
       IN  IF answer.answerText = "undefined" THEN "" ELSE answer.answerText
  ELSE LET rows == {r \in Range(inv[i].responses) : r.questions.id = id}
       IN  IF rows = {} \/ (CHOOSE r \in rows : TRUE).student_answer = <<>>
           THEN "" ELSE "some text"

\* The quiz has Choice questions only.
ChoiceOnly ==
  \A n \in 1..Len(questions) :
    IF deployed = "submissions" THEN questions[n].type = "mcq"
    ELSE questions[n].question_type = "multiple_choice"

\* Outcome n of invocation i belongs to a Choice question.
ChoiceOutcome(i, n) ==
  IF deployed = "submissions" THEN inv[i].questions[n].type = "mcq"
  ELSE inv[i].responses[n].questions.question_type = "multiple_choice"

\* The option index n written as TakeQuiz writes it (index.toString()).
IndexLabel(n) == <<CHOOSE c \in Digits : DigitValue(c) = n>>

\* Exactly one choice of the question is marked correct.
WellFormed(q) == Cardinality({n \in 1..Len(q.choices) : q.choices[n].is_correct}) = 1

\* The outcome a question gets when it is graded on its own.
OutcomeAlone(i, n) ==
  IF deployed = "submissions"
  THEN LET q == inv[i].questions[n]
           answer == Find(inv[i].answers, q.id)
       IN  IF answer = NoAnswer THEN NoAnswerEntry(q)
           ELSE IF q.type = "mcq" THEN McqEntry(q, answer)
           ELSE ShortEntry(q, ReplyFor(i, q.id))
  ELSE LET response == inv[i].responses[n]
           question == response.questions
       IN  IF question.question_type = "multiple_choice"
           THEN MultipleChoiceResult(response)
           ELSE ShortAnswerResult(question,
                                  gradeShortAnswer(question.points, ReplyFor(i, question.id)))

----------------------------------------------------------------------------
(* Properties *)

\* C1: in every grading result, every question's awarded score is a number
\* between 0 and the question's weight, whatever the oracle returned.
C1_ScoreWithinWeight ==
  \A i \in Invocations :
    Finished(i) =>
      \A n \in 1..Len(Outcomes(i)) :
        LET o == Outcomes(i)[n] IN
        IF deployed = "submissions"
        THEN o.scoreIsNum /\ 0 <= o.score /\ o.score <= o.max
        ELSE 0 <= o.pointsEarned /\ o.pointsEarned <= o.maxPoints

\* C2: when an oracle call failed (error status, rejected fetch, unreadable
\* or unparsable body), the invocation still runs its loop to the end, every
\* question has its outcome, and each question whose own call did not fail
\* has the outcome it gets when graded on its own.
C2_OracleFailureIsolated ==
  \A i \in Invocations :
    (Ended(i) /\ \E m \in 1..Len(inv[i].oracleLog) :
                   inv[i].oracleLog[m].reply.kind \in FailureKinds) =>
      /\ LoopCompleted(i)
      /\ Len(inv[i].gradedResults) = Len(Items(i))
      /\ \A n \in 1..Len(Items(i)) : inv[i].gradedResults[n] = OutcomeAlone(i, n)

\* C3: in every grading result the total is the sum of the outcomes' scores,
\* the maximum is the sum of the weights of the quiz's questions, needsReview
\* is the OR of the outcomes' review flags, and the stored score is the
\* returned total.
C3_AggregateInvariants ==
  \A i \in Invocations :
    Finished(i) =>
      LET body == inv[i].response.body
          os == Outcomes(i)
      IN
      /\ ("needsReview" \in DOMAIN body /\ body.needsReview)
           = (\E n \in 1..Len(os) : Flagged(os[n]))
      /\ IF deployed = "submissions"
         THEN /\ body.totalScore.scoreIsNum
              /\ \A n \in 1..Len(os) : os[n].scoreIsNum
              /\ body.totalScore.score = Sum([n \in 1..Len(os) |-> os[n].score])
              /\ body.maxPossibleScore =
                   Sum([n \in 1..Len(questions) |-> Weight(questions[n])])
              /\ submissions[inv[i].submissionId].score = body.totalScore
         ELSE /\ body.totalScore = Sum([n \in 1..Len(os) |-> os[n].pointsEarned])
              /\ body.maxPossibleScore =
                   Sum([n \in 1..Len(questions) |-> questions[n].points])
              /\ quiz_submissions[inv[i].submissionId].total_score
                   = [score |-> body.totalScore, scoreIsNum |-> TRUE]

\* C4: a Choice question earns its full weight when the submitted label is
\* exactly the label of the option marked correct, and 0 for any other
\* label, for an answer without label and for no answer.
C4_ChoiceExactMatch ==
  \A i \in Invocations :
    \A n \in 1..Len(inv[i].gradedResults) :
      LET o == inv[i].gradedResults[n] IN
      IF deployed = "submissions"
      THEN LET q == inv[i].questions[n]
               answer == Find(inv[i].answers, q.id)
           IN  (q.type = "mcq" /\ WellFormed(q)) =>
                 o.score = IF /\ answer # NoAnswer
                              /\ answer.choiceLabel # "undefined"
                              /\ answer.choiceLabel = CorrectChoice(q.choices).label
                           THEN Weight(q) ELSE 0
      ELSE LET response == inv[i].responses[n]
               question == response.questions
           IN  question.question_type = "multiple_choice" =>
                 o.pointsEarned =
                   IF response.student_answer = IndexLabel(question.correct_answer_index)
                   THEN question.points ELSE 0

\* C5: when the oracle call for a question failed or its output could not be
\* parsed, the question still gets an outcome, with half the weight as score,
\* confidence low and the review flag set, whatever the failure was.
C5_FallbackOutcome ==
  \A i \in Invocations :
    Ended(i) =>
      \A m \in 1..Len(inv[i].oracleLog) :
        LET call == inv[i].oracleLog[m] IN
        call.reply.kind \in FailureKinds =>
          /\ OutcomesFor(i, call.id) # {}
          /\ \A o \in OutcomesFor(i, call.id) :
               /\ NumericScore(o)
               /\ ScoreOf(o) * 2 = WeightOf(o)
               /\ HasConfidence(o) /\ o.confidence = "low"
               /\ Flagged(o)

\* C6: when the oracle returns a numeric score outside 0..weight, the outcome
\* has the nearest bound as score, confidence low and the review flag set.
C6_ClampOutOfRange ==
  \A i \in Invocations :
    \A m \in 1..Len(inv[i].oracleLog) :
      LET call == inv[i].oracleLog[m] IN
      \A o \in OutcomesFor(i, call.id) :
        (/\ call.reply.kind = "object"
         /\ call.reply.scoreIsNum
         /\ (call.reply.score < 0 \/ call.reply.score > WeightOf(o))) =>
          /\ NumericScore(o)
          /\ ScoreOf(o) = IF call.reply.score < 0 THEN 0 ELSE WeightOf(o)
          /\ HasConfidence(o) /\ o.confidence = "low"
          /\ Flagged(o)

\* C7: every outcome has a confidence among high, medium and low; when the
\* oracle's confidence is missing or unknown, the outcome has confidence low
\* and keeps the oracle's score and explanation.
C7_ConfidenceValidated ==
  \A i \in Invocations :
    /\ \A o \in Range(inv[i].gradedResults) :
         HasConfidence(o) /\ o.confidence \in ConfidenceLabels
    /\ \A m \in 1..Len(inv[i].oracleLog) :
         LET call == inv[i].oracleLog[m] IN
         \A o \in OutcomesFor(i, call.id) :
           (/\ call.reply.kind = "object"
            /\ call.reply.scoreIsNum
            /\ call.reply.score >= 0 /\ call.reply.score <= WeightOf(o)
            /\ call.reply.text # "undefined"
            /\ call.reply.confidence \notin ConfidenceLabels) =>
             /\ HasConfidence(o) /\ o.confidence = "low"
             /\ NumericScore(o) /\ ScoreOf(o) = call.reply.score
             /\ TextOf(o) = <<call.reply.text>>

\* C8: the oracle is never called for a question without submitted text, and
\* such a question's outcome is score 0, confidence high, 'No answer provided'.
C8_NoOracleCallWithoutText ==
  \A i \in Invocations :
    /\ \A m \in 1..Len(inv[i].oracleLog) :
         SubmittedText(i, inv[i].oracleLog[m].id) # ""
    /\ \A n \in 1..Len(inv[i].gradedResults) :
         LET o == inv[i].gradedResults[n] IN
         (~ChoiceOutcome(i, n) /\ SubmittedText(i, IdOf(o)) = "") =>
           /\ ScoreOf(o) = 0
           /\ HasConfidence(o) /\ o.confidence = "high"
           /\ TextOf(o) = <<"No answer provided">>

\* C9: the review flag of an oracle-graded outcome is set exactly when its
\* confidence is low or the fallback path was taken or the score was clamped:
\* the oracle's own requiresReview cannot set it.
C9_ReviewFlagDerived ==
  \A i \in Invocations :
    \A m \in 1..Len(inv[i].oracleLog) :
      LET call == inv[i].oracleLog[m] IN
      \A o \in OutcomesFor(i, call.id) :
        Flagged(o) =
          \/ (HasConfidence(o) /\ o.confidence = "low")
          \/ call.reply.kind \in FailureKinds
          \/ (call.reply.scoreIsNum /\ NumericScore(o) /\ ScoreOf(o) # call.reply.score)

NoneCorrect(q) ==
  q.type = "mcq" /\ \A n \in 1..Len(q.choices) : ~q.choices[n].is_correct

\* C11: a Choice question with no option marked correct is graded, for
\* every answer submitted to it (one without a label included), as score 0,
\* confidence low, review required.
C11_MalformedQuestionOutcome ==
  \A i \in Invocations :
    deployed = "submissions" =>
      \A n \in 1..Len(inv[i].gradedResults) :
        LET o == inv[i].gradedResults[n] IN
        (NoneCorrect(inv[i].questions[n]) /\ Find(inv[i].answers, o.id) # NoAnswer) =>
          /\ o.scoreIsNum /\ o.score = 0
          /\ o.confidence = "low"
          /\ Flagged(o)

\* The weights of all the quiz's questions, added up.
QuizMax ==
  Sum([n \in 1..Len(questions) |->
         IF deployed = "submissions" THEN Weight(questions[n]) ELSE questions[n].points])

\* C12: a grading result holds exactly one outcome per question of the
\* quiz, unanswered questions included and counted in the maximum, in the
\* quiz's own order.
C12_OneOutcomePerQuestionInOrder ==
  \A i \in Invocations :
    Finished(i) =>
      /\ Len(Outcomes(i)) = Len(questions)
      /\ \A n \in 1..Len(Outcomes(i)) : IdOf(Outcomes(i)[n]) = questions[n].id
      /\ inv[i].response.body.maxPossibleScore = QuizMax

\* The invocation has read its submission and has not answered yet.
InFlight(i) == inv[i].pc \in {"fetchQuestions", "fetchResponses", "loop"}

\* C13: at most one grading of a submission is in flight at a time.
C13_OneGradingInFlight ==
  \A i, j \in Invocations :
    (i # j /\ InFlight(i) /\ InFlight(j)) => inv[i].submissionId # inv[j].submissionId

\* Storage holds no grading: no submission row was updated and no response
\* row carries a grade.
Ungraded ==
  /\ \A s \in DOMAIN submissions :
       submissions[s].updates = 0 /\ submissions[s].graded = <<>>
  /\ \A s \in DOMAIN quiz_submissions :
       quiz_submissions[s].updates = 0 /\ ~quiz_submissions[s].is_completed
  /\ \A r \in Range(question_responses) : ~r.graded

\* C14: as long as no invocation has produced its full result, nothing of
\* a grading is in storage: an invocation that is still grading, or that
\* failed, has written no outcome.
C14_NoPartialState ==
  (\A i \in Invocations : ~Finished(i)) => Ungraded

\* The submission row an invocation was asked to grade.
StoredRow(i) ==
  IF deployed = "submissions" THEN submissions[inv[i].submissionId]
  ELSE quiz_submissions[inv[i].submissionId]

\* The stored row holds the result the invocation returned.
StoredAsReturned(i) ==
  LET body == inv[i].response.body IN
  IF deployed = "submissions"
  THEN StoredRow(i).score = body.totalScore /\ StoredRow(i).graded = body.graded
  ELSE /\ StoredRow(i).total_score = [score |-> body.totalScore, scoreIsNum |-> TRUE]
       /\ StoredRow(i).max_possible_score = body.maxPossibleScore
       /\ StoredRow(i).needs_review = body.needsReview
       /\ StoredRow(i).is_completed

\* C15: an invocation that reported success has written its result to the
\* submission's row exactly once, and the row holds what it returned.
C15_OneWritePerSuccess ==
  \A i \in Invocations :
    Finished(i) => StoredRow(i).updates = 1 /\ StoredAsReturned(i)

\* The lookup of the requested submission finds no row: the id is not
\* stored, or the policy hides the row from the function's client.
Unlocatable(i) ==
  \/ inv[i].submissionId \notin DOMAIN submissions \cup DOMAIN quiz_submissions
  \/ deployed = "submissions" /\ rowSecurity

Requested(i) == inv[i].pc # "idle"

OwnerOrAuthor(i) ==
  IF deployed = "submissions"
  THEN inv[i].caller \in {submissions[inv[i].submissionId].user_id, "teacher"}
  ELSE inv[i].caller \in {quiz_submissions[inv[i].submissionId].student_id,
                          quiz_submissions[inv[i].submissionId].created_by}

\* C17: a request by a caller who is neither the submission's owner nor the
\* quiz's author is not served: it never grades and never ends in success.
C17_UnauthorizedRejected ==
  \A i \in Invocations :
    (Requested(i) /\ ~Unlocatable(i) /\ ~OwnerOrAuthor(i)) =>
      /\ ~InFlight(i)
      /\ ~Finished(i)
      /\ inv[i].gradedResults = <<>>

\* Two invocations got the same reply from the oracle for every question
\* they both asked about, and asked about the same questions.
SameReplies(i, j) ==
  /\ {c.id : c \in Range(inv[i].oracleLog)} = {c.id : c \in Range(inv[j].oracleLog)}
  /\ \A c \in Range(inv[i].oracleLog) : ReplyFor(j, c.id) = c.reply

\* C18: two gradings of the same submission, with the same questions and
\* answers and the same replies of the oracle, return the same result (same
\* total, same maximum, same outcomes in the same order), and the stored
\* result is that result.
C18_Idempotent ==
  \A i, j \in Invocations :
    (i # j /\ Finished(i) /\ Finished(j)
       /\ inv[i].submissionId = inv[j].submissionId /\ SameReplies(i, j)) =>
      /\ inv[i].response.body = inv[j].response.body
      /\ StoredAsReturned(i)

\* No other request names the submission of invocation i.
OnlyRequestFor(i) ==
  \A j \in Invocations \ {i} : inv[j].submissionId # inv[i].submissionId

\* What invocation i has read is its own submission's, and once it has
\* answered, being the only one for its submission, the stored result is
\* the one it computed from that submission alone.
ReadsAndResultOwn(i) ==
  /\ (deployed = "submissions" /\ InFlight(i)) =>
       inv[i].answers = submissions[inv[i].submissionId].answers
  /\ \A r \in Range(inv[i].responses) : r.submission_id = inv[i].submissionId
  /\ (Finished(i) /\ OnlyRequestFor(i)) =>
       /\ \A n \in 1..Len(Outcomes(i)) : Outcomes(i)[n] = OutcomeAlone(i, n)
       /\ StoredRow(i).updates <= 1
       /\ (deployed = "submissions" \/ StoredRow(i).updates = 1) =>
            StoredRow(i).updates = 1 /\ StoredAsReturned(i)
       /\ \A r \in Range(question_responses) :
            (r.submission_id = inv[i].submissionId /\ r.graded) =>
              \E o \in Range(Outcomes(i)) :
                o.questionId = r.questions.id /\ o.pointsEarned = r.points_earned

\* A step changes rows of the submission its invocation was asked to grade,
\* and no other row.
WritesOwnRows ==
  /\ \A s \in DOMAIN submissions :
       submissions'[s] # submissions[s] =>
         \E i \in Invocations : inv'[i] # inv[i] /\ inv[i].submissionId = s
  /\ \A s \in DOMAIN quiz_submissions :
       quiz_submissions'[s] # quiz_submissions[s] =>
         \E i \in Invocations : inv'[i] # inv[i] /\ inv[i].submissionId = s
  /\ Len(question_responses') = Len(question_responses)
  /\ \A n \in 1..Len(question_responses) :
       question_responses'[n] # question_responses[n] =>
         \E i \in Invocations :
           inv'[i] # inv[i] /\ inv[i].submissionId = question_responses[n].submission_id

\* C19: gradings of different submissions do not touch each other: each
\* invocation reads and writes only its own submission's rows, and under any
\* interleaving a submission ends with the result its own grading computed.
C19_SubmissionsIndependent ==
  /\ [](\A i \in Invocations : ReadsAndResultOwn(i))
  /\ [][WritesOwnRows]_vars

\* The two submissions are being graded at the same time, each invocation
\* past its first question.
C19_Witness ==
  \E i, j \in Invocations :
    /\ inv[i].submissionId = "s1" /\ inv[j].submissionId = "s2"
    /\ InFlight(i) /\ InFlight(j)
    /\ inv[i].gradedResults # <<>> /\ inv[j].gradedResults # <<>>

\* The outcome a grading result holds for question id.
OutcomeOf(i, id) == CHOOSE o \in Range(Outcomes(i)) : IdOf(o) = id

\* The reference scenario: the quiz is q1 (Choice, B correct, weight 1) and
\* q2 (open-ended, weight 2), the answers are option B (index 1 where the
\* answer is stored as an index) and a text, and the oracle replied
\* {score: 1.5, confidence: "medium"}, with or without a text of its own.
ReferenceScenario(i) ==
  /\ Finished(i)
  /\ [n \in 1..Len(questions) |-> questions[n].id] = <<"q1", "q2">>
  /\ IF deployed = "submissions"
     THEN inv[i].answers = ReferenceAnswers
     ELSE {<<r.questions.id, r.student_answer>> : r \in Range(inv[i].responses)}
            = {<<"q1", <<"1">>>>, <<"q2", <<"t", "e", "x", "t">>>>}
  /\ Called(i, "q2")
  /\ ReplyFor(i, "q2").kind = "object"
  /\ ReplyFor(i, "q2").scoreIsNum /\ ReplyFor(i, "q2").score = 15
  /\ ReplyFor(i, "q2").confidence = "medium"
  /\ ReplyFor(i, "q2").requiresReview = "undefined"

\* The total a grading result reports, in tenths; -1 when it is no number.
ReturnedTotal(i) ==
  LET total == inv[i].response.body.totalScore IN
  IF deployed = "submissions" THEN (IF total.scoreIsNum THEN total.score ELSE -1)
  ELSE total

GradedRows == {r \in Range(question_responses) : r.graded}

\* The row was written from one of gradeShortAnswer's fallbacks.
FallbackRow(r) ==
  r.ai_feedback \in {"Unable to grade automatically. Manual review required.",
                     "Automatic grading failed. Manual review required."}

\* C29 as claimed: a short-answer row is stored correct exactly when its
\* score is at least 70 percent of the points, every fallback row is stored
\* incorrect and flagged for review, and a multiple-choice row is stored
\* correct exactly when points_earned equals the question's points.
C29_StoredCorrectness ==
  \A r \in GradedRows :
    IF r.questions.question_type = "short_answer"
    THEN /\ r.is_correct <=> r.points_earned * 10 >= r.questions.points * 7
         /\ FallbackRow(r) => ~r.is_correct /\ r.requires_manual_review
    ELSE r.is_correct <=> r.points_earned = r.questions.points

\* C29: a short-answer row is stored correct exactly when its score is at
\* least 70 percent of the points; a fallback row has score 0, is flagged
\* for review, and is stored incorrect when the question is worth more than
\* 0 points (correct when it is worth 0); a multiple-choice row is stored
\* correct exactly when the answer parses to the correct index, and then
\* earns the question's points, else 0.
C29_StoredCorrectnessByPoints ==
  \A r \in GradedRows :
    IF r.questions.question_type = "short_answer"
    THEN /\ r.is_correct <=> r.points_earned * 10 >= r.questions.points * 7
         /\ FallbackRow(r) =>
              /\ r.points_earned = 0
              /\ r.requires_manual_review
              /\ r.is_correct <=> r.questions.points = 0
    ELSE /\ r.is_correct <=> MultipleChoiceCorrect(r)
         /\ r.points_earned = IF r.is_correct THEN r.questions.points ELSE 0

\* A short answer stored below the pass mark with a score above 0, and one
\* stored from a fallback.
C29_Witness ==
  /\ \E r \in GradedRows :
       r.questions.question_type = "short_answer" /\ ~r.is_correct /\ r.points_earned > 0
  /\ \E r \in GradedRows : FallbackRow(r)

\* C28: once a generate-quiz run has answered, the quiz row it created is
\* stored only together with its questions rows, and a run whose questions
\* insert failed has answered with an error and left no quiz row.
C28_QuizWithQuestionsOrNothing ==
  \A r \in GenerateRuns :
    gen.runs[r].pc = "done" =>
      /\ r \in gen.quizzes => r \in gen.questions
      /\ gen.runs[r].questionsFailed => gen.runs[r].status = 500 /\ r \notin gen.quizzes

----------------------------------------------------------------------------
(* SimpleTakeQuiz *)

\* The submissions rows nothing has graded.
UngradedRows == {s \in DOMAIN submissions : submissions[s].updates = 0}

\* C24: SimpleTakeQuiz creates at most one submissions row per attempt, and
\* once the results view is shown every row it inserted has been graded.
C24_OneRowPerAttempt ==
  client.component = "SimpleTakeQuiz" =>
    /\ Cardinality(DOMAIN submissions) <= 1
    /\ client.completed # "none" => UngradedRows = {}

\* The grade function could not find the row it was asked to grade.
RowNotFound(i) ==
  /\ Ended(i)
  /\ inv[i].response.status = 500
  /\ inv[i].response.body = ErrorBody("no rows returned")

\* C22: the grade function invoked by SimpleTakeQuiz for the row the student
\* has just inserted reads that row: it never fails for want of the row.
C22_GradeReadsInsertedRow ==
  client.component = "SimpleTakeQuiz" =>
    \A i \in Invocations :
      inv[i].submissionId \in DOMAIN submissions => ~RowNotFound(i)
----------------------------------------------------------------------------
(* TakeQuiz *)

Taking == client.component \in {"TakeQuiz", "SimpleTakeQuiz"}

\* The component holds a non-empty answer to the question.
Answered(id) ==
  IF client.component = "TakeQuiz" THEN AnswerOf(client.answers, id) # <<>>
  ELSE ~SimpleUnanswered(Find(client.answers, id))

\* The index is within the quiz, and every question before it is answered.
IndexInQuiz ==
  /\ client.currentQuestionIndex >= 0
  /\ client.questions # <<>> => client.currentQuestionIndex < Len(client.questions)
  /\ \A n \in 1..client.currentQuestionIndex : Answered(client.questions[n].id)

\* A submit started by handleNext carries an answer to the last question.
ManualSubmitsAnswered ==
  IF client.component = "TakeQuiz"
  THEN \A n \in 1..Len(client.runs) :
         client.runs[n].caller = "handleNext" =>
           AnswerOf(client.runs[n].answers, client.questions[Len(client.questions)].id) # <<>>
  ELSE client.run.pc = "insert" =>
         ~SimpleUnanswered(Find(client.run.answers,
                                client.questions[Len(client.questions)].id))

\* C27: in TakeQuiz and SimpleTakeQuiz the index of the current question
\* stays within the quiz, every question before it has a non-empty answer,
\* a manual submit carries an answer to the last question, and the index
\* only ever goes up by one.
C27_Navigation ==
  /\ [](Taking => IndexInQuiz /\ ManualSubmitsAnswered)
  /\ [][Taking => client'.currentQuestionIndex \in
                    {client.currentQuestionIndex, client.currentQuestionIndex + 1}]_vars

\* The handleSubmit calls that have neither failed nor succeeded yet.
RunsInFlight ==
  {n \in 1..Len(client.runs) : client.runs[n].pc \in {"upsert", "invoke", "await"}}

RunsSucceeded == {n \in 1..Len(client.runs) : client.runs[n].pc = "done"}

\* The requests TakeQuiz has sent to the grade function.
GradeInvocations == {i \in Invocations : inv[i].pc # "idle"}

\* C23: TakeQuiz has at most one handleSubmit call in flight, starts none
\* after one has succeeded, and an attempt that succeeds has invoked the
\* grade function once.
C23_OneSubmitAtATime ==
  client.component = "TakeQuiz" =>
    /\ Cardinality(RunsInFlight) <= 1
    /\ RunsSucceeded # {} => RunsInFlight = {} /\ Cardinality(GradeInvocations) <= 1

\* The handleSubmit calls whose upsert the database has answered, with
\* success or with the unique constraint's refusal.
RunsUpserted ==
  {n \in 1..Len(client.runs) :
     \/ client.runs[n].pc \in {"invoke", "await", "done"}
     \/ client.runs[n].pc = "failed" /\ client.runs[n].error \in {"conflict", "grade"}}

\* The rows question_responses holds for the question.
StoredResponses(id) ==
  {m \in 1..Len(question_responses) : question_responses[m].id = <<"s1", id>>}

\* C21: a submission holds at most one answer per question, and after the
\* latest submit that reached the database each question's stored answer is
\* the answer of that submit.
C21_LatestAnswerStored ==
  client.component = "TakeQuiz" /\ RunsUpserted # {} =>
    LET latest == CHOOSE n \in RunsUpserted : \A m \in RunsUpserted : m <= n IN
    \A k \in 1..Len(client.questions) :
      LET id == client.questions[k].id IN
      /\ Cardinality(StoredResponses(id)) <= 1
      /\ \A m \in StoredResponses(id) :
           question_responses[m].student_answer = AnswerOf(client.runs[latest].answers, id)

\* The quiz is loaded and on screen.
QuizShown == TakeQuizOpen /\ ~client.loading /\ client.submissionId # "none"

\* A handleSubmit call of the timer effect carries '' for every question
\* the student has not answered: its answers are the component's.
SubmittedByTimer ==
  \E n \in 1..Len(client.runs) :
    /\ client.runs[n].caller = "effect"
    /\ \A k \in 1..Len(client.questions) :
         AnswerOf(client.runs[n].answers, client.questions[k].id) =
           AnswerOf(client.answers, client.questions[k].id)

\* C26: the countdown of TakeQuiz starts at time_limit * 60, goes down by
\* one at a time and only while not submitting, is never negative, and at 0
\* the quiz on screen has been submitted by the timer.
C26_Countdown ==
  /\ [](client.component = "TakeQuiz" =>
          /\ client.timeLeft \in 0..InitialTimeLeft(client.time_limit)
          /\ QuizShown /\ client.timeLeft = 0 => SubmittedByTimer)
  /\ [][client.component = "TakeQuiz" =>
          /\ client'.timeLeft \in {client.timeLeft, client.timeLeft - 1}
          /\ client.submitting => client'.timeLeft = client.timeLeft]_vars

\* fetchQuestionsAndCreateSubmission has returned.
LoadEnded == ~client.loading \/ client.loadFailed \/ client.closed # "open"

\* This visit has not touched the submission: no submission id, no
\* handleSubmit call, no request to the grade function, and the row is
\* still completed.
Untouched ==
  /\ client.submissionId = "none"
  /\ client.loading
  /\ client.runs = <<>>
  /\ GradeInvocations = {}
  /\ \A s \in DOMAIN quiz_submissions : quiz_submissions[s].is_completed

StaysCompleted ==
  \A s \in DOMAIN quiz_submissions :
    quiz_submissions[s].is_completed =>
      s \in DOMAIN quiz_submissions' /\ quiz_submissions'[s].is_completed

\* C25 as stated: opening a quiz whose submission is completed calls
\* onBack and touches nothing, and is_completed is never set back to false.
C25_CompletedSentBack ==
  /\ [](client.component = "TakeQuiz" /\ client.earlier = "completed" =>
          /\ Untouched
          /\ LoadEnded => client.closed = "back")
  /\ [][StaysCompleted]_vars

\* C25: opening a quiz whose submission is completed never shows the quiz
\* and touches nothing: no submission id, no upsert, no grade request; the
\* component either calls onBack or stays on its loading screen; and
\* is_completed is never set back to false.
C25_CompletedNotRetaken ==
  /\ [](client.component = "TakeQuiz" /\ client.earlier = "completed" =>
          /\ Untouched
          /\ client.closed \in {"open", "back"})
  /\ [][StaysCompleted]_vars

C25_Witness ==
  /\ client.component = "TakeQuiz"
  /\ client.earlier = "completed"
  /\ client.closed = "back"
====
